---- MODULE Spec2Model ----
(***************************************************************************)
(* Ephemeral artifact store, reclamation and admission control of the      *)
(* voice-pdf-assistant backend:                                            *)
(*   backend/app/utils/file_manager.py   (FileManager)                     *)
(*   backend/app/utils/scheduler.py      (CleanupScheduler)                *)
(*   backend/app/middleware/rate_limiter.py (RateLimiter)                  *)
(*   backend/app/main.py                 (request handlers)                *)
(*                                                                         *)
(* Time is counted in units of 1800 seconds in the store specification     *)
(* (so 3600 s = 2, 1800 s = 1, one hour = 2) and in abstract ticks in the  *)
(* rate limiter specifications.                                            *)
(***************************************************************************)
EXTENDS Integers, Sequences, FiniteSets, TLC

\* ------------------------------------------------------------------ bounds
MaxIds == 2         \* how many uuid4 values the store may draw
MaxLen == 2         \* longest content, in write chunks
MaxTime == 3        \* last instant of the store's clock
MaxRequests == 2    \* is_allowed's max_requests (60 in dispatch)
WindowSeconds == 2  \* is_allowed's window_seconds (60 in dispatch)
MaxUploads == 1     \* is_upload_allowed's max_uploads (5 in dispatch)
UploadWindowSeconds == 3  \* is_upload_allowed's window_seconds (600)
MaxCalls == 4       \* how many rate limiter calls a behaviour makes
MaxClock == 3       \* last instant of the rate limiter's clock
MaxMid == 3         \* longest free part of a filename given to the sanitizer
MaxPost == 6        \* longest run of plain characters after the free part
MaxStarts == 3      \* how many start() and how many stop() calls are made
MaxPasses == 3      \* how many _run_cleanup passes a behaviour executes

\* ------------------------------------------------- program constants (time)
UploadCleanupDelay == 2   \* delay_seconds=3600 in upload_pdf
ResultCleanupDelay == 1   \* delay_seconds=1800 in process_pdf
SweepHours == 2           \* cleanup_old_files(hours=1)
NameLimit == 255          \* if len(filename) > 255
KeepLen == 250            \* name[:250]

Ids == 1..MaxIds
NoId == 0
Threads == {<<"t", 1>>, <<"t", 2>>}
Sweeper == <<"sw", 0>>
CleanupAll == <<"ca", 0>>
SchedTask(id) == <<"s", id>>
SchedTasks == {SchedTask(id) : id \in Ids}
Procs == Threads \cup {Sweeper, CleanupAll} \cup SchedTasks
NoProc == <<"none", 0>>
Ips == {"ip1", "ip2"}
Callers == {1, 2}

VARIABLES
    \* FileManager
    metadata,     \* self.metadata: file_id -> entry
    keys,         \* insertion order of self.metadata (dict order)
    disk,         \* files on disk, by the id their path is derived from
    lock,         \* self.lock: the process holding it, or NoProc
    used,         \* uuid4 values drawn so far
    now,          \* the clock
    \* control state of every process
    pc, fid, liveAtStart,
    \* request threads
    op, clen, res, afterDel, duringCreate,
    \* schedule_cleanup tasks
    due,
    \* cleanup_old_files pass
    cutoff_time, file_ids, deleted_count, expiredAtStart, sweepResult,
    \* history: ids whose Delete (begun on a live entry) has returned
    deleted,
    \* history: ids whose entry the cleanup_old_files pass in progress removed
    swept,
    \* RateLimiter
    requests,         \* self.requests: ip -> list of timestamps
    upload_requests,  \* self.upload_requests
    clock,            \* datetime.now()
    calls,            \* history of the calls that returned
    rpc, rip, rtmp, rres, rslots, rstart,   \* a call in progress, per caller
    \* _sanitize_filename
    san_in, san_out, san_pc,
    \* request handlers of main.py, per handler thread
    req,          \* the endpoint being served, or "none"
    status,       \* the HTTP status answered, or 0
    engine,       \* whether pdf_service.process_command was invoked
    knownAtStart, \* the id had a metadata entry when the request began
    fileAtStart,  \* the id had its file on disk when the request began
    \* RateLimitMiddleware.dispatch: history of the requests dispatched
    dispatched,
    \* CleanupScheduler
    is_running,   \* self.is_running
    loops,        \* the _cleanup_loop tasks created, each with its position
    passes,       \* history: is_running at each _run_cleanup executed
    starts, stops,  \* how many start() / stop() calls have returned
    \* cleanup_all
    ca_ids,       \* file_ids of cleanup_all
    ca_quiet      \* no save was in progress when cleanup_all began

storev == <<metadata, keys, disk>>
threadv == <<op, clen, res, afterDel, duringCreate>>
sweepv == <<cutoff_time, file_ids, deleted_count, expiredAtStart, sweepResult>>
histv == <<deleted, swept>>

fmvars == <<storev, lock, used, now, pc, fid, liveAtStart, threadv, due,
            sweepv, histv>>

rlvars == <<requests, upload_requests, clock, calls, rpc, rip, rtmp, rres,
            rslots, rstart>>
sanvars == <<san_in, san_out, san_pc>>
apivars == <<req, status, engine, knownAtStart, fileAtStart>>
dispvars == <<dispatched>>
schvars == <<is_running, loops, passes, starts, stops>>
cavars == <<ca_ids, ca_quiet>>
othv == <<apivars, dispvars, schvars, cavars>>
extv == <<rlvars, sanvars, othv>>

vars == <<fmvars, rlvars, sanvars, othv>>

\* the store's variables other than the control positions
fmvars_but_pc == <<storev, lock, used, now, fid, liveAtStart, threadv, due,
                   sweepv, histv>>

\* ---------------------------------------------------------------- helpers
Remove(f, x) == [y \in (DOMAIN f) \ {x} |-> f[y]]
Put(f, x, v) == [y \in (DOMAIN f) \cup {x} |-> IF y = x THEN v ELSE f[y]]
Without(s, x) == SelectSeq(s, LAMBDA y : y # x)
Range(s) == {s[i] : i \in DOMAIN s}

\* datetime.utcnow().isoformat(): a str
isoformat(t) == [kind |-> "str", t |-> t]
\* datetime.now() - timedelta(hours=hours): a datetime
datetime(t) == [kind |-> "datetime", t |-> t]
\* variant: created_at is read back as a datetime before it is compared
py_lt_parsed(a, b) == IF a.t < b.t THEN "True" ELSE "False"

\* a < b as Python evaluates it: str against datetime raises TypeError
py_lt(a, b) == IF a.kind # b.kind THEN "TypeError"
               ELSE IF a.t < b.t THEN "True" ELSE "False"

CreateOps == {"save_upload", "save_result"}
ReadOps == {"get_file_info", "get_file_path", "file_exists"}
CreatePcs == {"c_write", "c_lock", "c_insert"}

FmInit ==
    /\ metadata = << >>
    /\ keys = << >>
    /\ disk = << >>
    /\ lock = NoProc
    /\ used = {}
    /\ now = 0
    /\ pc = [p \in Procs |-> IF p \in Threads THEN "idle"
                             ELSE IF p = Sweeper THEN "sw_idle"
                             ELSE IF p = CleanupAll THEN "ca_idle" ELSE "s_none"]
    /\ fid = [p \in Procs |-> NoId]
    /\ liveAtStart = [p \in Procs |-> FALSE]
    /\ op = [t \in Threads |-> "none"]
    /\ clen = [t \in Threads |-> 0]
    /\ res = [t \in Threads |-> "none"]
    /\ afterDel = [t \in Threads |-> FALSE]
    /\ duringCreate = [t \in Threads |-> FALSE]
    /\ due = [id \in Ids |-> 0]
    /\ cutoff_time = datetime(0)
    /\ file_ids = << >>
    /\ deleted_count = 0
    /\ expiredAtStart = {}
    /\ sweepResult = -1
    /\ deleted = {}
    /\ swept = {}

RlInit ==
    /\ requests = [ip \in Ips |-> << >>]
    /\ upload_requests = [ip \in Ips |-> << >>]
    /\ clock = 0
    /\ calls = << >>
    /\ rpc = [c \in Callers |-> "idle"]
    /\ rip = [c \in Callers |-> "ip1"]
    /\ rtmp = [c \in Callers |-> << >>]
    /\ rres = [c \in Callers |-> FALSE]
    /\ rslots = [c \in Callers |-> 0]
    /\ rstart = [c \in Callers |-> 0]

SanIdle ==
    /\ san_in = << >>
    /\ san_out = << >>
    /\ san_pc = "idle"

OthInit ==
    /\ req = [t \in Threads |-> "none"]
    /\ status = [t \in Threads |-> 0]
    /\ engine = [t \in Threads |-> FALSE]
    /\ knownAtStart = [t \in Threads |-> FALSE]
    /\ fileAtStart = [t \in Threads |-> FALSE]
    /\ dispatched = << >>
    /\ is_running = FALSE
    /\ loops = << >>
    /\ passes = << >>
    /\ starts = 0
    /\ stops = 0
    /\ ca_ids = << >>
    /\ ca_quiet = FALSE

Init == FmInit /\ RlInit /\ SanIdle /\ OthInit

\* ------------------------------------------------------- save_upload/result
\* faulty variant: the lock is taken, and the entry inserted, after the first chunk
after_write_early(written, total) == "c_lock"

\* where the create goes after a write chunk: the lock is taken only when the
\* whole content is on disk (write_bytes / copy2 precede "with self.lock")
after_write(written, total) == IF written < total THEN "c_write" ELSE "c_lock"

\* faulty variant: the entry is assigned before the size lookup can fail
store_metadata_always(md, id, entry, ok) == Put(md, id, entry)

\* the dict assignment under the lock: the entry, its size included, is
\* evaluated first, so a failing stat() leaves the map as it was
store_metadata(md, id, entry, ok) == IF ok THEN Put(md, id, entry) ELSE md

written_of(id) == IF id \in DOMAIN disk THEN disk[id].written ELSE 0

\* faulty variant: an id may be drawn again
uuid4_repeating(drawn) == Ids

\* uuid.uuid4(): a random 122-bit value, taken never to repeat one drawn
\* before (the code relies on this: it makes no check of its own)
uuid4(drawn) == Ids \ drawn

\* file_id = str(uuid.uuid4()); the name is sanitized, the path derived
save_begin(t) ==
    /\ pc[t] = "idle"
    /\ \E id \in uuid4(used), n \in 1..MaxLen, o \in CreateOps :
         /\ used' = used \cup {id}
         /\ fid' = [fid EXCEPT ![t] = id]
         /\ clen' = [clen EXCEPT ![t] = n]
         /\ op' = [op EXCEPT ![t] = o]
    /\ pc' = [pc EXCEPT ![t] = "c_write"]
    /\ UNCHANGED <<extv, storev, lock, now, liveAtStart, res, afterDel,
                   duringCreate, due, sweepv, histv>>

\* file_path.write_bytes(content) / shutil.copy2(source_path, result_path),
\* one chunk at a time; a failing chunk raises (ValueError to the caller) and
\* leaves what was written
save_write(t) ==
    /\ pc[t] = "c_write"
    /\ \E ok \in BOOLEAN :
         IF ok
         THEN /\ disk' = Put(disk, fid[t], [written |-> written_of(fid[t]) + 1,
                                            total |-> clen[t]])
              /\ pc' = [pc EXCEPT ![t] = after_write(written_of(fid[t]) + 1, clen[t])]
              /\ res' = res
         ELSE /\ disk' = disk
              /\ pc' = [pc EXCEPT ![t] = "ret"]
              /\ res' = [res EXCEPT ![t] = "ValueError"]
    /\ UNCHANGED <<extv, metadata, keys, lock, used, now, fid, liveAtStart, op, clen,
                   afterDel, duringCreate, due, sweepv, histv>>

\* with self.lock:
save_lock(t) ==
    /\ pc[t] = "c_lock"
    /\ lock = NoProc
    /\ lock' = t
    /\ pc' = [pc EXCEPT ![t] = "c_insert"]
    /\ UNCHANGED <<extv, storev, used, now, fid, liveAtStart, threadv, due, sweepv, histv>>

\* self.metadata[file_id] = {...}; save_upload records len(content),
\* save_result records result_path.stat().st_size, which may raise
save_insert(t) ==
    /\ pc[t] = "c_insert"
    /\ \E statOk \in (IF op[t] = "save_result" THEN BOOLEAN ELSE {TRUE}) :
         LET entry == [size_bytes |-> IF op[t] = "save_upload" THEN clen[t]
                                      ELSE written_of(fid[t]),
                       created_at |-> isoformat(now),
                       type |-> IF op[t] = "save_upload" THEN "upload" ELSE "result"]
         IN /\ metadata' = store_metadata(metadata, fid[t], entry, statOk)
            /\ keys' = IF fid[t] \in DOMAIN metadata' THEN Append(keys, fid[t]) ELSE keys
            /\ pc' = [pc EXCEPT ![t] = IF statOk THEN "c_sched" ELSE "ret"]
            /\ res' = [res EXCEPT ![t] = IF statOk THEN res[t] ELSE "ValueError"]
    /\ lock' = NoProc
    /\ UNCHANGED <<extv, disk, used, now, fid, liveAtStart, op, clen, afterDel,
                   duringCreate, due, sweepv, histv>>

Delay(o) == IF o = "save_upload" THEN UploadCleanupDelay ELSE ResultCleanupDelay

\* the handler after the save: validation, then
\* background_tasks.add_task(file_manager.schedule_cleanup, id, delay_seconds)
\* which is skipped when the validation raised or there are no background_tasks
save_sched(t) ==
    /\ pc[t] = "c_sched"
    /\ \E registered \in BOOLEAN :
         IF registered
         THEN /\ pc' = [pc EXCEPT ![t] = "ret", ![SchedTask(fid[t])] = "s_sleep"]
              /\ due' = [due EXCEPT ![fid[t]] = now + Delay(op[t])]
              /\ res' = [res EXCEPT ![t] = "Ok"]
         ELSE /\ pc' = [pc EXCEPT ![t] = "ret"]
              /\ due' = due
              /\ res' = [res EXCEPT ![t] = "HTTPException"]
    /\ UNCHANGED <<extv, storev, lock, used, now, fid, liveAtStart, op, clen, afterDel,
                   duringCreate, sweepv, histv>>

\* the call has returned (or raised) to the client
return(t) ==
    /\ pc[t] = "ret"
    /\ pc' = [pc EXCEPT ![t] = "idle"]
    /\ fid' = [fid EXCEPT ![t] = NoId]
    /\ liveAtStart' = [liveAtStart EXCEPT ![t] = FALSE]
    /\ op' = [op EXCEPT ![t] = "none"]
    /\ clen' = [clen EXCEPT ![t] = 0]
    /\ res' = [res EXCEPT ![t] = "none"]
    /\ afterDel' = [afterDel EXCEPT ![t] = FALSE]
    /\ duringCreate' = [duringCreate EXCEPT ![t] = FALSE]
    /\ UNCHANGED <<extv, storev, lock, used, now, due, sweepv, histv>>

\* ------------------------------------- get_file_info/get_file_path/file_exists
\* faulty variant: the membership test is dropped
read_result_found(o, md, dk, id) == IF o = "file_exists" THEN "True" ELSE "Ok"

\* what a read returns, evaluated while the lock is held
read_result(o, md, dk, id) ==
    IF o = "file_exists"
    THEN (IF id \in DOMAIN md /\ id \in DOMAIN dk THEN "True" ELSE "False")
    ELSE (IF id \in DOMAIN md THEN "Ok" ELSE "NotFound")

read_begin(t) ==
    /\ pc[t] = "idle"
    /\ \E id \in Ids, o \in ReadOps :
         /\ fid' = [fid EXCEPT ![t] = id]
         /\ op' = [op EXCEPT ![t] = o]
         /\ afterDel' = [afterDel EXCEPT ![t] = id \in deleted]
         /\ duringCreate' = [duringCreate EXCEPT ![t] =
                \E u \in Threads : pc[u] \in CreatePcs /\ fid[u] = id]
    /\ pc' = [pc EXCEPT ![t] = "r_lock"]
    /\ UNCHANGED <<extv, storev, lock, used, now, liveAtStart, clen, res, due,
                   sweepv, histv>>

\* with self.lock:
read_lock(t) ==
    /\ pc[t] = "r_lock"
    /\ lock = NoProc
    /\ lock' = t
    /\ pc' = [pc EXCEPT ![t] = "r_read"]
    /\ UNCHANGED <<extv, storev, used, now, fid, liveAtStart, threadv, due, sweepv, histv>>

\* faulty variant: a read stamps the entry with the time of the access
after_read_touch(md, id, t) ==
    IF id \in DOMAIN md THEN [md EXCEPT ![id].created_at = isoformat(t)] ELSE md

\* the map after a read: the three reads only look the id up (get_file_info
\* returns a copy of the entry), so the map is what it was
after_read(md, id, t) == md

read_do(t) ==
    /\ pc[t] = "r_read"
    /\ res' = [res EXCEPT ![t] = read_result(op[t], metadata, disk, fid[t])]
    /\ metadata' = after_read(metadata, fid[t], now)
    /\ lock' = NoProc
    /\ pc' = [pc EXCEPT ![t] = "ret"]
    /\ UNCHANGED <<extv, keys, disk, used, now, fid, liveAtStart, op, clen, afterDel,
                   duringCreate, due, sweepv, histv>>

\* ------------------------------------------------------------- delete_file
\* faulty variant: the membership test is dropped
delete_known_always(md, id) == TRUE

\* "if file_id in self.metadata"
delete_known(md, id) == id \in DOMAIN md

\* a client's DELETE /api/file/{file_id}
delete_begin(t) ==
    /\ pc[t] = "idle"
    /\ \E id \in Ids :
         /\ fid' = [fid EXCEPT ![t] = id]
         /\ liveAtStart' = [liveAtStart EXCEPT ![t] = id \in DOMAIN metadata]
         /\ afterDel' = [afterDel EXCEPT ![t] = id \in deleted]
    /\ op' = [op EXCEPT ![t] = "delete_file"]
    /\ pc' = [pc EXCEPT ![t] = "d_lock"]
    /\ UNCHANGED <<extv, storev, lock, used, now, clen, res, duringCreate, due,
                   sweepv, histv>>

\* with self.lock:
delete_lock(p) ==
    /\ pc[p] = "d_lock"
    /\ lock = NoProc
    /\ lock' = p
    /\ pc' = [pc EXCEPT ![p] = "d_check"]
    /\ UNCHANGED <<extv, storev, used, now, fid, liveAtStart, threadv, due, sweepv, histv>>

\* if file_id in self.metadata: ... if file_path.exists():
delete_check(p) ==
    /\ pc[p] = "d_check"
    /\ IF delete_known(metadata, fid[p])
       THEN /\ pc' = [pc EXCEPT ![p] = IF fid[p] \in DOMAIN disk
                                       THEN "d_unlink" ELSE "d_del"]
            /\ lock' = lock
       ELSE /\ pc' = [pc EXCEPT ![p] = "d_ret"]
            /\ lock' = NoProc
    /\ UNCHANGED <<extv, storev, used, now, fid, liveAtStart, threadv, due, sweepv, histv>>

\* faulty variant: the lock is given up between the unlink and the del
lock_after_unlink_released(holder) == NoProc

\* the unlink and the del are inside one "with self.lock:" block, so the
\* lock stays with its holder from the one to the other
lock_after_unlink(holder) == holder

\* file_path.unlink(): it may raise (a permission error); the exception
\* leaves the with block, skipping the del, and is logged by the except
delete_unlink(p) ==
    /\ pc[p] = "d_unlink"
    /\ \E ok \in BOOLEAN :
         IF ok
         THEN /\ disk' = Remove(disk, fid[p])
              /\ pc' = [pc EXCEPT ![p] = "d_del"]
              /\ lock' = lock_after_unlink(lock)
         ELSE /\ disk' = disk
              /\ pc' = [pc EXCEPT ![p] = "d_ret"]
              /\ lock' = NoProc
    /\ UNCHANGED <<extv, metadata, keys, used, now, fid, liveAtStart, threadv, due,
                   sweepv, histv>>

\* del self.metadata[file_id], and the lock is released
delete_del(p) ==
    /\ pc[p] = "d_del"
    /\ metadata' = Remove(metadata, fid[p])
    /\ keys' = Without(keys, fid[p])
    /\ lock' = NoProc
    /\ pc' = [pc EXCEPT ![p] = "d_ret"]
    /\ swept' = IF p = Sweeper THEN swept \cup {fid[p]} ELSE swept
    /\ UNCHANGED <<extv, disk, used, now, fid, liveAtStart, threadv, due, sweepv, deleted>>

\* delete_file returns None to whoever called it: the request handler, the
\* schedule_cleanup task or the loop of cleanup_old_files
delete_return(p) ==
    /\ pc[p] = "d_ret"
    /\ deleted' = IF liveAtStart[p] THEN deleted \cup {fid[p]} ELSE deleted
    /\ pc' = [pc EXCEPT ![p] = IF p \in Threads THEN "ret"
                               ELSE IF p = Sweeper THEN "sw_loop"
                               ELSE IF p = CleanupAll THEN "ca_loop" ELSE "s_fired"]
    /\ res' = IF p \in Threads THEN [res EXCEPT ![p] = "Ok"] ELSE res
    /\ deleted_count' = IF p = Sweeper THEN deleted_count + 1 ELSE deleted_count
    /\ UNCHANGED <<extv, storev, lock, used, now, fid, liveAtStart, op, clen, afterDel,
                   duringCreate, due, cutoff_time, file_ids, expiredAtStart,
                   sweepResult, swept>>

\* -------------------------------------------------------- schedule_cleanup
\* faulty variant: the sleep returns at once
sleep_over_at_once(t, deadline) == TRUE

\* await asyncio.sleep(delay_seconds) returns when the delay has passed
sleep_over(t, deadline) == t >= deadline

\* await asyncio.sleep(delay_seconds) is over; self.delete_file(file_id)
schedule_cleanup_wake(id) ==
    /\ pc[SchedTask(id)] = "s_sleep"
    /\ sleep_over(now, due[id])
    /\ pc' = [pc EXCEPT ![SchedTask(id)] = "d_lock"]
    /\ fid' = [fid EXCEPT ![SchedTask(id)] = id]
    /\ liveAtStart' = [liveAtStart EXCEPT ![SchedTask(id)] = id \in DOMAIN metadata]
    /\ UNCHANGED <<extv, storev, lock, used, now, threadv, due, sweepv, histv>>

\* ------------------------------------------------------- cleanup_old_files
\* cutoff_time = datetime.now() - timedelta(hours=hours); deleted_count = 0;
\* file_ids = list(self.metadata.keys())   (read without the lock)
cleanup_old_files_begin ==
    /\ pc[Sweeper] = "sw_idle"
    /\ cutoff_time' = datetime(now - SweepHours)
    /\ deleted_count' = 0
    /\ file_ids' = keys
    /\ expiredAtStart' = {id \in DOMAIN metadata :
                            now - metadata[id].created_at.t > SweepHours}
    /\ sweepResult' = -1
    /\ swept' = {}
    /\ pc' = [pc EXCEPT ![Sweeper] = "sw_loop"]
    /\ UNCHANGED <<extv, storev, lock, used, now, fid, liveAtStart, threadv, due, deleted>>

\* one turn of "for file_id in file_ids": metadata.get, the comparison of
\* created_at with cutoff_time, delete_file; an exception ends the pass
\* in the except branch, which returns 0
cleanup_old_files_next ==
    /\ pc[Sweeper] = "sw_loop"
    /\ IF file_ids = << >>
       THEN /\ pc' = [pc EXCEPT ![Sweeper] = "sw_done"]
            /\ sweepResult' = deleted_count
            /\ UNCHANGED <<extv, file_ids, fid, liveAtStart>>
       ELSE LET id == Head(file_ids)
                cmp == IF id \in DOMAIN metadata
                       THEN py_lt(metadata[id].created_at, cutoff_time)
                       ELSE "False"
            IN /\ file_ids' = Tail(file_ids)
               /\ pc' = [pc EXCEPT ![Sweeper] =
                           IF cmp = "TypeError" THEN "sw_done"
                           ELSE IF cmp = "True" THEN "d_lock" ELSE "sw_loop"]
               /\ sweepResult' = IF cmp = "TypeError" THEN 0 ELSE sweepResult
               /\ fid' = [fid EXCEPT ![Sweeper] = IF cmp = "True" THEN id ELSE NoId]
               /\ liveAtStart' = [liveAtStart EXCEPT ![Sweeper] = cmp = "True"]
    /\ UNCHANGED <<extv, storev, lock, used, now, threadv, due, cutoff_time,
                   deleted_count, expiredAtStart, histv>>

\* the pass has returned its count to _run_cleanup
cleanup_old_files_return ==
    /\ pc[Sweeper] = "sw_done"
    /\ pc' = [pc EXCEPT ![Sweeper] = "sw_idle"]
    /\ file_ids' = << >>
    /\ expiredAtStart' = {}
    /\ deleted_count' = 0
    /\ cutoff_time' = datetime(0)
    /\ sweepResult' = -1
    /\ swept' = {}
    /\ UNCHANGED <<extv, storev, lock, used, now, fid, liveAtStart, threadv, due, deleted>>

\* ------------------------------------------------------------------- clock
Tick ==
    /\ now < MaxTime
    /\ now' = now + 1
    /\ UNCHANGED <<extv, storev, lock, used, pc, fid, liveAtStart, threadv, due,
                   sweepv, histv>>

\* request handlers running concurrently on the store
Next ==
    \/ \E t \in Threads : save_begin(t)
    \/ \E t \in Threads : save_write(t)
    \/ \E t \in Threads : save_lock(t)
    \/ \E t \in Threads : save_insert(t)
    \/ \E t \in Threads : save_sched(t)
    \/ \E t \in Threads : return(t)
    \/ \E t \in Threads : read_begin(t)
    \/ \E t \in Threads : read_lock(t)
    \/ \E t \in Threads : read_do(t)
    \/ \E t \in Threads : delete_begin(t)
    \/ \E t \in Threads : delete_lock(t)
    \/ \E t \in Threads : delete_check(t)
    \/ \E t \in Threads : delete_unlink(t)
    \/ \E t \in Threads : delete_del(t)
    \/ \E t \in Threads : delete_return(t)

Spec == Init /\ [][Next]_vars

\* one request handler and the schedule_cleanup tasks it registers, over time
Client == <<"t", 1>>
SchedProcs == {Client} \cup SchedTasks

NextSched ==
    \/ save_begin(Client)
    \/ save_write(Client)
    \/ save_lock(Client)
    \/ save_insert(Client)
    \/ save_sched(Client)
    \/ return(Client)
    \/ delete_begin(Client)
    \/ \E p \in SchedProcs : delete_lock(p)
    \/ \E p \in SchedProcs : delete_check(p)
    \/ \E p \in SchedProcs : delete_unlink(p)
    \/ \E p \in SchedProcs : delete_del(p)
    \/ \E p \in SchedProcs : delete_return(p)
    \/ \E id \in Ids : schedule_cleanup_wake(id)
    \/ Tick

SpecSched == Init /\ [][NextSched]_vars

\* one request handler and the periodic sweep, over time
SweepProcs == {Client, Sweeper}

NextSweep ==
    \/ save_begin(Client)
    \/ save_write(Client)
    \/ save_lock(Client)
    \/ save_insert(Client)
    \/ save_sched(Client)
    \/ return(Client)
    \/ delete_begin(Client)
    \/ \E p \in SweepProcs : delete_lock(p)
    \/ \E p \in SweepProcs : delete_check(p)
    \/ \E p \in SweepProcs : delete_unlink(p)
    \/ \E p \in SweepProcs : delete_del(p)
    \/ \E p \in SweepProcs : delete_return(p)
    \/ cleanup_old_files_begin
    \/ cleanup_old_files_next
    \/ cleanup_old_files_return
    \/ Tick

SpecSweep == Init /\ [][NextSweep]_vars

\* the same with the loop kept running: a pass that can begin or go on
\* does, delete_file called by the pass goes on, and time passes
SweepFairness ==
    /\ WF_vars(cleanup_old_files_begin)
    /\ WF_vars(cleanup_old_files_next)
    /\ WF_vars(cleanup_old_files_return)
    /\ WF_vars(delete_lock(Sweeper))
    /\ WF_vars(delete_check(Sweeper))
    /\ WF_vars(delete_unlink(Sweeper))
    /\ WF_vars(delete_del(Sweeper))
    /\ WF_vars(delete_return(Sweeper))
    /\ WF_vars(return(Client))
    /\ WF_vars(Tick)

SpecSweepFair == SpecSweep /\ SweepFairness

\* ============================================================= RateLimiter
\* faulty variant: the window is added to now instead of subtracted
cutoff_ahead(t, window_seconds) == t + window_seconds

\* cutoff = datetime.now() - timedelta(seconds=window_seconds)
cutoff(t, window_seconds) == t - window_seconds
\* "if timestamp > cutoff"
fresh(timestamp, c) == timestamp > c
\* the list comprehension of _clean_old_requests / _clean_old_uploads
clean_old(list, t, window_seconds) ==
    SelectSeq(list, LAMBDA timestamp : fresh(timestamp, cutoff(t, window_seconds)))
\* faulty variant: the limit test is off by one
at_limit_off_by_one(n, max_requests) == n > max_requests

\* "if len(self.requests[ip]) >= max_requests"
at_limit(n, max_requests) == n >= max_requests

\* faulty variant: a rejected attempt is recorded like an accepted one
record_always(kept, ts, accepted) == Append(kept, ts)

\* what the list is when the call returns: "return False" leaves the cleaned
\* list as it is, otherwise append(datetime.now()) precedes "return True"
record(kept, ts, accepted) == IF accepted THEN Append(kept, ts) ELSE kept

\* faulty variant: the upload policy reads the general list
upload_list_shared(reqs, ups, ip) == reqs[ip]

\* self.upload_requests[ip], the list the upload policy cleans and tests
upload_list(reqs, ups, ip) == ups[ip]

\* the second datetime.now() of a call, read after the first
Later == {t \in {clock, clock + 1} : t <= MaxClock}

Call(ip, policy, at, ts, ok) ==
    [ip |-> ip, policy |-> policy, at |-> at, ts |-> ts, ok |-> ok]

\* is_allowed(ip, max_requests, window_seconds), run without interruption
is_allowed(ip) ==
    /\ Len(calls) < MaxCalls
    /\ \A c \in Callers : rpc[c] = "idle"
    /\ LET kept == clean_old(requests[ip], clock, WindowSeconds)
       IN IF at_limit(Len(kept), MaxRequests)
          THEN /\ requests' = [requests EXCEPT ![ip] = record(kept, clock, FALSE)]
               /\ calls' = Append(calls, Call(ip, "general", clock, clock, FALSE))
               /\ clock' = clock
          ELSE \E t \in Later :
               /\ requests' = [requests EXCEPT ![ip] = record(kept, t, TRUE)]
               /\ calls' = Append(calls, Call(ip, "general", clock, t, TRUE))
               /\ clock' = t
    /\ UNCHANGED <<othv, fmvars, sanvars, upload_requests, rpc, rip, rtmp, rres,
                   rslots, rstart>>

\* is_upload_allowed(ip, max_uploads, window_seconds), run without interruption
is_upload_allowed(ip) ==
    /\ Len(calls) < MaxCalls
    /\ \A c \in Callers : rpc[c] = "idle"
    /\ LET kept == clean_old(upload_list(requests, upload_requests, ip), clock,
                              UploadWindowSeconds)
       IN IF at_limit(Len(kept), MaxUploads)
          THEN /\ upload_requests' = [upload_requests EXCEPT ![ip] =
                                        record(kept, clock, FALSE)]
               /\ calls' = Append(calls, Call(ip, "upload", clock, clock, FALSE))
               /\ clock' = clock
          ELSE \E t \in Later :
               /\ upload_requests' = [upload_requests EXCEPT ![ip] =
                                        record(kept, t, TRUE)]
               /\ calls' = Append(calls, Call(ip, "upload", clock, t, TRUE))
               /\ clock' = t
    /\ UNCHANGED <<othv, fmvars, sanvars, requests, rpc, rip, rtmp, rres, rslots, rstart>>

ClockTick ==
    /\ clock < MaxClock
    /\ clock' = clock + 1
    /\ UNCHANGED <<othv, fmvars, sanvars, requests, upload_requests, calls, rpc, rip,
                   rtmp, rres, rslots, rstart>>

\* calls made one after the other
NextRate ==
    \/ \E ip \in Ips : is_allowed(ip)
    \/ \E ip \in Ips : is_upload_allowed(ip)
    \/ ClockTick

SpecRate == Init /\ [][NextRate]_vars

\* ---------------------------------------------- RateLimitMiddleware.dispatch
Paths == {"/api/upload", "/api/process"}
Methods == {"POST", "GET"}

\* faulty variant: every request is held to the upload policy
upload_route_any(path, method) == TRUE

\* request.url.path == "/api/upload" and request.method == "POST"
upload_route(path, method) == path = "/api/upload" /\ method = "POST"

\* dispatch(request, call_next): is_allowed first; a False raises 429 at once;
\* for an upload request is_upload_allowed next, a False raises 429; only
\* then call_next(request).  "upload" is the answer of is_upload_allowed, or
\* "skipped" when it was not called.
dispatch(ip, path, method) ==
    /\ Len(dispatched) < MaxCalls
    /\ LET kept == clean_old(requests[ip], clock, WindowSeconds)
           general == ~at_limit(Len(kept), MaxRequests)
           reqs == [requests EXCEPT ![ip] = record(kept, clock, general)]
           checked == general /\ upload_route(path, method)
           ukept == clean_old(upload_list(reqs, upload_requests, ip), clock,
                              UploadWindowSeconds)
           upload == ~at_limit(Len(ukept), MaxUploads)
       IN /\ requests' = reqs
          /\ upload_requests' =
                IF checked
                THEN [upload_requests EXCEPT ![ip] = record(ukept, clock, upload)]
                ELSE upload_requests
          /\ dispatched' = Append(dispatched,
                [ip |-> ip, path |-> path, method |-> method, at |-> clock,
                 general |-> general,
                 upload |-> IF ~checked THEN "skipped"
                            ELSE IF upload THEN "True" ELSE "False",
                 call_next |-> general /\ (checked => upload)])
    /\ UNCHANGED <<fmvars, sanvars, apivars, schvars, cavars, clock, calls, rpc,
                   rip, rtmp, rres, rslots, rstart>>

NextDispatch ==
    \/ \E ip \in Ips, path \in Paths, method \in Methods : dispatch(ip, path, method)
    \/ ClockTick

SpecDispatch == Init /\ [][NextDispatch]_vars

\* ------------------------------------- is_allowed, statement by statement
\* two callers (request workers) inside is_allowed at the same time; the
\* class takes no lock

InFlight == Cardinality({c \in Callers : rpc[c] # "idle"})

\* the call is entered
is_allowed_enter(c) ==
    /\ rpc[c] = "idle"
    /\ Len(calls) + InFlight < MaxCalls
    /\ \E ip \in Ips :
         /\ rip' = [rip EXCEPT ![c] = ip]
         /\ rslots' = [rslots EXCEPT ![c] =
               MaxRequests - Len(clean_old(requests[ip], clock, WindowSeconds))]
    /\ rstart' = [rstart EXCEPT ![c] = clock]
    /\ rpc' = [rpc EXCEPT ![c] = "clean"]
    /\ UNCHANGED <<othv, fmvars, sanvars, requests, upload_requests, clock, calls,
                   rtmp, rres>>

\* _clean_old_requests: the new list is built ...
clean_old_requests_build(c) ==
    /\ rpc[c] = "clean"
    /\ rtmp' = [rtmp EXCEPT ![c] = clean_old(requests[rip[c]], clock, WindowSeconds)]
    /\ rpc' = [rpc EXCEPT ![c] = "store"]
    /\ UNCHANGED <<othv, fmvars, sanvars, requests, upload_requests, clock, calls,
                   rip, rres, rslots, rstart>>

\* ... and assigned to self.requests[ip]
clean_old_requests_store(c) ==
    /\ rpc[c] = "store"
    /\ requests' = [requests EXCEPT ![rip[c]] = rtmp[c]]
    /\ rtmp' = [rtmp EXCEPT ![c] = << >>]
    /\ rpc' = [rpc EXCEPT ![c] = "check"]
    /\ UNCHANGED <<othv, fmvars, sanvars, upload_requests, clock, calls, rip, rres,
                   rslots, rstart>>

\* if len(self.requests[ip]) >= max_requests: return False
is_allowed_check(c) ==
    /\ rpc[c] = "check"
    /\ IF at_limit(Len(requests[rip[c]]), MaxRequests)
       THEN /\ rpc' = [rpc EXCEPT ![c] = "ret"]
            /\ rres' = [rres EXCEPT ![c] = FALSE]
       ELSE /\ rpc' = [rpc EXCEPT ![c] = "append"]
            /\ rres' = rres
    /\ UNCHANGED <<othv, fmvars, sanvars, requests, upload_requests, clock, calls,
                   rip, rtmp, rslots, rstart>>

\* self.requests[ip].append(datetime.now()); return True
is_allowed_append(c) ==
    /\ rpc[c] = "append"
    /\ requests' = [requests EXCEPT ![rip[c]] = Append(@, clock)]
    /\ rres' = [rres EXCEPT ![c] = TRUE]
    /\ rpc' = [rpc EXCEPT ![c] = "ret"]
    /\ UNCHANGED <<othv, fmvars, sanvars, upload_requests, clock, calls, rip, rtmp,
                   rslots, rstart>>

\* the caller has its answer
is_allowed_return(c) ==
    /\ rpc[c] = "ret"
    /\ calls' = Append(calls, Call(rip[c], "general", rstart[c], clock, rres[c]))
    /\ rpc' = [rpc EXCEPT ![c] = "idle"]
    /\ rip' = [rip EXCEPT ![c] = "ip1"]
    /\ rres' = [rres EXCEPT ![c] = FALSE]
    /\ rslots' = [rslots EXCEPT ![c] = 0]
    /\ rstart' = [rstart EXCEPT ![c] = 0]
    /\ UNCHANGED <<othv, fmvars, sanvars, requests, upload_requests, clock, rtmp>>

NextRateConc ==
    \/ \E c \in Callers : is_allowed_enter(c)
    \/ \E c \in Callers : clean_old_requests_build(c)
    \/ \E c \in Callers : clean_old_requests_store(c)
    \/ \E c \in Callers : is_allowed_check(c)
    \/ \E c \in Callers : is_allowed_append(c)
    \/ \E c \in Callers : is_allowed_return(c)
    \/ ClockTick

SpecRateConc == Init /\ [][NextRateConc]_vars

\* ====================================================== _sanitize_filename
\* a str is a sequence of characters; NUL stands for "\x00"
NUL == "\\0"
Alphabet == {"a", ".", "/", "\\", NUL}

LastIndexOf(str, ch) ==
    IF \E i \in DOMAIN str : str[i] = ch
    THEN CHOOSE i \in DOMAIN str : str[i] = ch /\ \A j \in DOMAIN str : str[j] = ch => j <= i
    ELSE 0

\* Path(filename).name on a POSIX host: the last component that is neither
\* empty nor ".", or "" when there is none
RECURSIVE path_name(_)
path_name(str) ==
    IF str = << >> THEN << >>
    ELSE LET i == LastIndexOf(str, "/")
             last == SubSeq(str, i + 1, Len(str))
         IN IF last = << >> \/ last = <<".">>
            THEN (IF i = 0 THEN << >> ELSE path_name(SubSeq(str, 1, i - 1)))
            ELSE last

\* where str.find('..') finds its first match at or after nothing, or 0
FindDotDot(str) ==
    IF \E i \in 1..(Len(str) - 1) : str[i] = "." /\ str[i + 1] = "."
    THEN CHOOSE i \in 1..(Len(str) - 1) :
            /\ str[i] = "." /\ str[i + 1] = "."
            /\ \A j \in 1..(i - 1) : ~(str[j] = "." /\ str[j + 1] = ".")
    ELSE 0

\* filename.replace('..', '_'): the text before the first match, the
\* replacement, then the same on what follows the match (no overlap)
RECURSIVE replace_dotdot(_)
replace_dotdot(str) ==
    LET i == FindDotDot(str)
    IN IF i = 0 THEN str
       ELSE SubSeq(str, 1, i - 1) \o <<"_">>
            \o replace_dotdot(SubSeq(str, i + 2, Len(str)))

\* filename.replace(ch, '_') for a single character
replace_char(str, ch) == [i \in DOMAIN str |-> IF str[i] = ch THEN "_" ELSE str[i]]

\* os.path.splitext: the extension starts at the last dot, unless only dots
\* precede it
splitext(str) ==
    LET dotIndex == LastIndexOf(str, ".")
    IN IF dotIndex > 0 /\ \E j \in 1..(dotIndex - 1) : str[j] # "."
       THEN <<SubSeq(str, 1, dotIndex - 1), SubSeq(str, dotIndex, Len(str))>>
       ELSE <<str, << >> >>

\* name[:250] + ext
truncate(name, ext) == SubSeq(name, 1, IF Len(name) < KeepLen THEN Len(name) ELSE KeepLen) \o ext

document_pdf == <<"d", "o", "c", "u", "m", "e", "n", "t", ".", "p", "d", "f">>

sanitize_filename(filename) ==
    LET base == path_name(filename)
        safe == replace_char(replace_char(replace_char(replace_dotdot(base),
                    "/"), "\\"), NUL)
        cut == IF Len(safe) > NameLimit
               THEN truncate(splitext(safe)[1], splitext(safe)[2])
               ELSE safe
    IN IF cut = << >> THEN document_pdf ELSE cut

\* the filenames tried: a run of plain characters (none, or about as long as
\* the truncation point), a free part, a run of plain characters
Run(n) == [i \in 1..n |-> "a"]
RECURSIVE Strings(_)
Strings(n) ==
    IF n = 0 THEN {<< >>}
    ELSE Strings(n - 1) \cup
         {Append(str, ch) : str \in {x \in Strings(n - 1) : Len(x) = n - 1},
                            ch \in Alphabet}
PreLens == {0} \cup ((KeepLen - MaxMid)..KeepLen)
SanInputs == {Run(pre) \o mid \o Run(post) :
                pre \in PreLens, mid \in Strings(MaxMid), post \in 0..MaxPost}

InitSan ==
    /\ FmInit
    /\ RlInit
    /\ OthInit
    /\ san_in \in SanInputs
    /\ san_out = << >>
    /\ san_pc = "ready"

sanitize ==
    /\ san_pc = "ready"
    /\ san_out' = sanitize_filename(san_in)
    /\ san_pc' = "done"
    /\ UNCHANGED <<othv, fmvars, rlvars, san_in>>

NextSan == sanitize

SpecSan == InitSan /\ [][NextSan]_vars

\* ========================================================= request handlers
\* One handler at a time (the handlers are coroutines of one event loop that
\* never await inside the store calls), calling the store operations above.
\* HTTP statuses are the ones the handlers raise or return.

BeginRequest(t, endpoint, id, o) ==
    /\ pc[t] = "idle"
    /\ req' = [req EXCEPT ![t] = endpoint]
    /\ fid' = [fid EXCEPT ![t] = id]
    /\ op' = [op EXCEPT ![t] = o]
    /\ knownAtStart' = [knownAtStart EXCEPT ![t] = id \in DOMAIN metadata]
    /\ fileAtStart' = [fileAtStart EXCEPT ![t] = id \in DOMAIN disk]
    /\ liveAtStart' = [liveAtStart EXCEPT ![t] = id \in DOMAIN metadata]
    /\ afterDel' = [afterDel EXCEPT ![t] = id \in deleted]

Respond(t, code) ==
    /\ status' = [status EXCEPT ![t] = code]
    /\ pc' = [pc EXCEPT ![t] = "responded"]

\* DELETE /api/file/{file_id}: file_manager.delete_file(file_id)
delete_endpoint_begin(t) ==
    /\ \E id \in Ids : BeginRequest(t, "delete", id, "delete_file")
    /\ pc' = [pc EXCEPT ![t] = "d_lock"]
    /\ UNCHANGED <<rlvars, sanvars, dispvars, schvars, cavars, storev, lock,
                   used, now, clen, res, duringCreate, due, sweepv, histv,
                   status, engine>>

\* what the delete handler answers: the success message when delete_file
\* returned, 404 from the except branch when it raised
delete_endpoint_status(r) == IF r = "Ok" THEN 200 ELSE 404

delete_endpoint_respond(t) ==
    /\ pc[t] = "ret" /\ req[t] = "delete"
    /\ Respond(t, delete_endpoint_status(res[t]))
    /\ UNCHANGED <<rlvars, sanvars, dispvars, schvars, cavars, fmvars_but_pc,
                   req, engine, knownAtStart, fileAtStart>>

\* GET /api/download/{file_id}: file_manager.get_file_path(file_id)
download_file_begin(t) ==
    /\ \E id \in Ids : BeginRequest(t, "download", id, "get_file_path")
    /\ pc' = [pc EXCEPT ![t] = "r_lock"]
    /\ UNCHANGED <<rlvars, sanvars, dispvars, schvars, cavars, storev, lock,
                   used, now, clen, res, duringCreate, due, sweepv, histv,
                   status, engine>>

\* get_file_path has returned or raised; "if not file_path.exists()" raises
\* HTTPException(404); a ValueError from the store is not an HTTPException
\* and is answered by the "except Exception" branch with 500; otherwise
\* file_manager.get_file_info(file_id) is called
download_file_exists(t) ==
    /\ pc[t] = "ret" /\ req[t] = "download" /\ op[t] = "get_file_path"
    /\ IF res[t] = "NotFound"
       THEN Respond(t, 500) /\ op' = op
       ELSE IF fid[t] \notin DOMAIN disk
       THEN Respond(t, 404) /\ op' = op
       ELSE /\ pc' = [pc EXCEPT ![t] = "r_lock"]
            /\ op' = [op EXCEPT ![t] = "get_file_info"]
            /\ status' = status
    /\ UNCHANGED <<rlvars, sanvars, dispvars, schvars, cavars, storev, lock,
                   used, now, fid, liveAtStart, clen, res, afterDel,
                   duringCreate, due, sweepv, histv, req, engine,
                   knownAtStart, fileAtStart>>

\* get_file_info has returned or raised: FileResponse, or 500
download_file_respond(t) ==
    /\ pc[t] = "ret" /\ req[t] = "download" /\ op[t] = "get_file_info"
    /\ Respond(t, IF res[t] = "Ok" THEN 200 ELSE 500)
    /\ UNCHANGED <<rlvars, sanvars, dispvars, schvars, cavars, fmvars_but_pc,
                   req, engine, knownAtStart, fileAtStart>>

\* POST /api/process: file_manager.file_exists(request.file_id)
process_pdf_begin(t) ==
    /\ \E id \in Ids : BeginRequest(t, "process", id, "file_exists")
    /\ pc' = [pc EXCEPT ![t] = "r_lock"]
    /\ UNCHANGED <<rlvars, sanvars, dispvars, schvars, cavars, storev, lock,
                   used, now, clen, res, duringCreate, due, sweepv, histv,
                   status, engine>>

\* "if not file_manager.file_exists(...)": HTTPException(404); otherwise
\* command_parser.parse, which may raise ValueError (400), and then
\* pdf_service.process_command
process_pdf_check(t) ==
    /\ pc[t] = "ret" /\ req[t] = "process" /\ op[t] = "file_exists"
    /\ IF res[t] = "False"
       THEN Respond(t, 404) /\ engine' = engine
       ELSE \E parsed \in BOOLEAN :
            IF parsed
            THEN /\ pc' = [pc EXCEPT ![t] = "p_engine"]
                 /\ engine' = [engine EXCEPT ![t] = TRUE]
                 /\ status' = status
            ELSE Respond(t, 400) /\ engine' = engine
    /\ UNCHANGED <<rlvars, sanvars, dispvars, schvars, cavars, fmvars_but_pc,
                   req, knownAtStart, fileAtStart>>

\* process_command: the operation reads the source (get_file_path,
\* get_file_info) and transforms it; it fails with a ValueError (400) or
\* another exception (500), or goes on to file_manager.save_result
process_command(t) ==
    /\ pc[t] = "p_engine"
    /\ \/ /\ \E code \in {400, 500} : Respond(t, code)
          /\ UNCHANGED <<used, fid, clen, op>>
       \/ /\ fid[t] \in DOMAIN metadata
          /\ \E id \in uuid4(used), n \in 1..MaxLen :
               /\ used' = used \cup {id}
               /\ fid' = [fid EXCEPT ![t] = id]
               /\ clen' = [clen EXCEPT ![t] = n]
          /\ op' = [op EXCEPT ![t] = "save_result"]
          /\ pc' = [pc EXCEPT ![t] = "c_write"]
          /\ status' = status
    /\ UNCHANGED <<rlvars, sanvars, dispvars, schvars, cavars, storev, lock,
                   now, liveAtStart, res, afterDel, duringCreate, due, sweepv,
                   histv, req, engine, knownAtStart, fileAtStart>>

\* save_result raised ValueError: 400
process_pdf_fail(t) ==
    /\ pc[t] = "ret" /\ req[t] = "process" /\ op[t] = "save_result"
    /\ Respond(t, 400)
    /\ UNCHANGED <<rlvars, sanvars, dispvars, schvars, cavars, fmvars_but_pc,
                   req, engine, knownAtStart, fileAtStart>>

\* get_file_info(result_file_id); background_tasks.add_task(schedule_cleanup,
\* result_file_id, delay_seconds=1800) if there are background_tasks;
\* ProcessResponse
process_pdf_finish(t) ==
    /\ pc[t] = "c_sched" /\ req[t] = "process"
    /\ Respond(t, 200)
    /\ UNCHANGED <<rlvars, sanvars, dispvars, schvars, cavars, fmvars_but_pc,
                   req, engine, knownAtStart, fileAtStart>>

\* the response has been sent
respond_return(t) ==
    /\ pc[t] = "responded"
    /\ pc' = [pc EXCEPT ![t] = "idle"]
    /\ fid' = [fid EXCEPT ![t] = NoId]
    /\ liveAtStart' = [liveAtStart EXCEPT ![t] = FALSE]
    /\ op' = [op EXCEPT ![t] = "none"]
    /\ clen' = [clen EXCEPT ![t] = 0]
    /\ res' = [res EXCEPT ![t] = "none"]
    /\ afterDel' = [afterDel EXCEPT ![t] = FALSE]
    /\ duringCreate' = [duringCreate EXCEPT ![t] = FALSE]
    /\ req' = [req EXCEPT ![t] = "none"]
    /\ status' = [status EXCEPT ![t] = 0]
    /\ engine' = [engine EXCEPT ![t] = FALSE]
    /\ knownAtStart' = [knownAtStart EXCEPT ![t] = FALSE]
    /\ fileAtStart' = [fileAtStart EXCEPT ![t] = FALSE]
    /\ UNCHANGED <<rlvars, sanvars, dispvars, schvars, cavars, storev, lock,
                   used, now, due, sweepv, histv>>

\* the file of a stored artifact disappears from the temporary directory
\* without the store's doing (the case "File not found or has expired")
file_lost(id) ==
    /\ id \in DOMAIN metadata /\ id \in DOMAIN disk
    /\ lock = NoProc
    /\ \A t \in Threads : ~(pc[t] \in CreatePcs /\ fid[t] = id)
    /\ disk' = Remove(disk, id)
    /\ UNCHANGED <<extv, metadata, keys, lock, used, now, pc, fid, liveAtStart,
                   threadv, due, sweepv, histv>>

\* a store call made directly (no endpoint) by the handler thread
Direct(t) == req[t] = "none"

NextApi ==
    \/ Direct(Client) /\ save_begin(Client)
    \/ save_write(Client)
    \/ save_lock(Client)
    \/ save_insert(Client)
    \/ Direct(Client) /\ save_sched(Client)
    \/ Direct(Client) /\ return(Client)
    \/ read_begin(Client)
    \/ read_lock(Client)
    \/ read_do(Client)
    \/ delete_lock(Client)
    \/ delete_check(Client)
    \/ delete_unlink(Client)
    \/ delete_del(Client)
    \/ delete_return(Client)
    \/ delete_endpoint_begin(Client)
    \/ delete_endpoint_respond(Client)
    \/ download_file_begin(Client)
    \/ download_file_exists(Client)
    \/ download_file_respond(Client)
    \/ process_pdf_begin(Client)
    \/ process_pdf_check(Client)
    \/ process_command(Client)
    \/ process_pdf_fail(Client)
    \/ process_pdf_finish(Client)
    \/ respond_return(Client)
    \/ \E id \in Ids : file_lost(id)

SpecApi == Init /\ [][NextApi]_vars

\* ============================================================== cleanup_all
\* lifespan's shutdown: file_manager.cleanup_all().  Requests that were
\* being served go on; no new request is accepted once it has begun.

\* file_ids = list(self.metadata.keys())   (read without the lock)
cleanup_all_begin ==
    /\ pc[CleanupAll] = "ca_idle"
    /\ ca_ids' = keys
    /\ ca_quiet' = (\A t \in Threads : pc[t] \notin CreatePcs)
    /\ pc' = [pc EXCEPT ![CleanupAll] = "ca_loop"]
    /\ UNCHANGED <<rlvars, sanvars, apivars, dispvars, schvars, fmvars_but_pc>>

\* one turn of "for file_id in file_ids: self.delete_file(file_id)"; after
\* the last one the empty directories are removed and the call returns
cleanup_all_next ==
    /\ pc[CleanupAll] = "ca_loop"
    /\ IF ca_ids = << >>
       THEN /\ pc' = [pc EXCEPT ![CleanupAll] = "ca_done"]
            /\ UNCHANGED <<ca_ids, fid, liveAtStart>>
       ELSE /\ ca_ids' = Tail(ca_ids)
            /\ fid' = [fid EXCEPT ![CleanupAll] = Head(ca_ids)]
            /\ liveAtStart' = [liveAtStart EXCEPT ![CleanupAll] =
                                  Head(ca_ids) \in DOMAIN metadata]
            /\ pc' = [pc EXCEPT ![CleanupAll] = "d_lock"]
    /\ UNCHANGED <<rlvars, sanvars, apivars, dispvars, schvars, ca_quiet,
                   storev, lock, used, now, threadv, due, sweepv, histv>>

Serving == pc[CleanupAll] = "ca_idle"
ShutdownProcs == {Client, CleanupAll}

NextShutdown ==
    \/ Serving /\ save_begin(Client)
    \/ save_write(Client)
    \/ save_lock(Client)
    \/ save_insert(Client)
    \/ save_sched(Client)
    \/ return(Client)
    \/ Serving /\ delete_begin(Client)
    \/ \E p \in ShutdownProcs : delete_lock(p)
    \/ \E p \in ShutdownProcs : delete_check(p)
    \/ \E p \in ShutdownProcs : delete_unlink(p)
    \/ \E p \in ShutdownProcs : delete_del(p)
    \/ \E p \in ShutdownProcs : delete_return(p)
    \/ cleanup_all_begin
    \/ cleanup_all_next

SpecShutdown == Init /\ [][NextShutdown]_vars

\* ========================================================= CleanupScheduler
\* start(), stop() and the _cleanup_loop tasks that start() creates.  The
\* store holds nothing in this specification, so a pass of _run_cleanup
\* (cleanup_old_files, cleanup_old_jobs) leaves it as it is; what a pass does
\* to a store that holds artifacts is cleanup_old_files above.

\* faulty variant: start() does not look at is_running
already_running_never(running) == FALSE

\* "if self.is_running: return"
already_running(running) == running

\* start(): self.is_running = True; asyncio.create_task(self._cleanup_loop())
start ==
    /\ starts < MaxStarts
    /\ starts' = starts + 1
    /\ IF already_running(is_running)
       THEN UNCHANGED <<is_running, loops>>
       ELSE /\ is_running' = TRUE
            /\ loops' = Append(loops, "test")
    /\ UNCHANGED <<fmvars, rlvars, sanvars, apivars, dispvars, cavars, passes, stops>>

\* stop(): self.is_running = False
stop ==
    /\ stops < MaxStarts
    /\ stops' = stops + 1
    /\ is_running' = FALSE
    /\ UNCHANGED <<fmvars, rlvars, sanvars, apivars, dispvars, cavars, loops,
                   passes, starts>>

\* faulty variant: the loop does not look at is_running
while_running_forever(running) == TRUE

\* "while self.is_running:"
while_running(running) == running

\* "while self.is_running:" then "await asyncio.sleep(self.cleanup_interval)"
cleanup_loop_test(i) ==
    /\ loops[i] = "test"
    /\ loops' = [loops EXCEPT ![i] = IF while_running(is_running) THEN "sleep"
                                     ELSE "done"]
    /\ UNCHANGED <<fmvars, rlvars, sanvars, apivars, dispvars, cavars,
                   is_running, passes, starts, stops>>

\* the sleep is over: "await self._run_cleanup()" follows without a look at
\* is_running, and the loop goes back to its test (an exception of the pass
\* is caught and logged inside the loop); the history keeps the first
\* MaxPasses passes
cleanup_loop_run_cleanup(i) ==
    /\ loops[i] = "sleep"
    /\ passes' = IF Len(passes) < MaxPasses THEN Append(passes, is_running)
                 ELSE passes
    /\ loops' = [loops EXCEPT ![i] = "test"]
    /\ UNCHANGED <<fmvars, rlvars, sanvars, apivars, dispvars, cavars,
                   is_running, starts, stops>>

NextScheduler ==
    \/ start
    \/ stop
    \/ \E i \in DOMAIN loops : cleanup_loop_test(i)
    \/ \E i \in DOMAIN loops : cleanup_loop_run_cleanup(i)

SpecScheduler == Init /\ [][NextScheduler]_vars

\* the event loop runs every task that is ready and every sleep ends
LoopSlots == 1..MaxStarts
SchedulerFairness ==
    \A i \in LoopSlots :
        /\ WF_vars(i \in DOMAIN loops /\ cleanup_loop_test(i))
        /\ WF_vars(i \in DOMAIN loops /\ cleanup_loop_run_cleanup(i))

SpecSchedulerFair == SpecScheduler /\ SchedulerFairness

\* ================================================================ properties

\* C1 (as claimed): after a Delete(id) of a stored artifact has returned,
\* every later get_file_info / get_file_path / file_exists of that id
\* reports not-found, whatever the unlink inside the Delete did.
C1_IsolationAfterDelete ==
    \A t \in Threads :
        (pc[t] = "ret" /\ op[t] \in ReadOps /\ afterDel[t])
            => res[t] \in {"NotFound", "False"}

\* C2: whenever the metadata lock is free (so at every point where a reader
\* can take it and look), every id with a metadata entry has its file on
\* disk, written completely, with the size the entry records.
C2_NoPartialFileVisible ==
    lock = NoProc =>
        \A id \in DOMAIN metadata :
            /\ id \in DOMAIN disk
            /\ disk[id].written = disk[id].total
            /\ metadata[id].size_bytes = disk[id].total

\* C2 witness: a read that began while the Create of its id was in progress
\* has found the entry.
C2_Witness ==
    \E t \in Threads :
        /\ pc[t] = "ret" /\ op[t] \in ReadOps /\ duringCreate[t]
        /\ res[t] \in {"Ok", "True"}

\* C9: a save_upload / save_result that fails (at a write chunk, at the copy
\* or at the size lookup) raises to its caller, the failing step leaves the
\* metadata map as it was, and no entry for the generated id exists.
C9_FailedCreateLeavesNoEntry ==
    /\ [](\A t \in Threads :
            (pc[t] = "ret" /\ op[t] \in CreateOps /\ res[t] = "ValueError")
                => fid[t] \notin DOMAIN metadata)
    /\ [][\A t \in Threads :
            (pc[t] \in CreatePcs /\ pc'[t] = "ret")
                => (res'[t] = "ValueError" /\ metadata' = metadata
                    /\ fid[t] \notin DOMAIN metadata')]_vars

\* C9 witness: a save_result whose copy completed has raised (the size
\* lookup failed under the lock).
C9_Witness ==
    \E t \in Threads :
        /\ pc[t] = "ret" /\ op[t] = "save_result" /\ res[t] = "ValueError"
        /\ fid[t] \in DOMAIN disk /\ disk[fid[t]].written = disk[fid[t]].total

\* C10: the step of delete_file that finds its id absent from the metadata
\* (never created, or already deleted) goes straight to the return, and
\* changes neither the metadata map nor any file; the call then returns
\* normally.
C10_DeleteUnknownIsNoOp ==
    /\ [][\A t \in Threads :
            (pc[t] = "d_check" /\ pc'[t] # "d_check" /\ fid[t] \notin DOMAIN metadata)
                => (pc'[t] = "d_ret" /\ metadata' = metadata /\ keys' = keys
                    /\ disk' = disk)]_vars
    /\ [](\A t \in Threads :
            (pc[t] = "ret" /\ op[t] = "delete_file") => res[t] = "Ok")

\* C10 witness: a Delete of an id whose earlier Delete had already returned
\* has itself returned.
C10_Witness ==
    \E t \in Threads :
        /\ pc[t] = "ret" /\ op[t] = "delete_file" /\ afterDel[t]
        /\ ~liveAtStart[t]
\* C3 (as claimed): two is_allowed calls for the same ip that were both
\* entered at the same instant with exactly one slot left under the limit,
\* and have both reached their return with no time passing, gave exactly
\* one True and one False.
C3_OneSlotOneWinner ==
    \A c1 \in Callers, c2 \in Callers :
        (/\ c1 # c2
         /\ rpc[c1] = "ret" /\ rpc[c2] = "ret"
         /\ rip[c1] = rip[c2]
         /\ rslots[c1] = 1 /\ rslots[c2] = 1
         /\ rstart[c1] = clock /\ rstart[c2] = clock)
            => (rres[c1] # rres[c2])

\* accepted calls of a policy for ip whose timestamp lies in (t - w, t]
AcceptedIn(ip, policy, t, w) ==
    {i \in DOMAIN calls : /\ calls[i].ip = ip /\ calls[i].policy = policy
                          /\ calls[i].ok
                          /\ t - w < calls[i].ts /\ calls[i].ts <= t}

\* C4: for every ip and every instant t, the accepted is_allowed calls with a
\* timestamp in the window of WindowSeconds ending at t are at most
\* MaxRequests, and the accepted is_upload_allowed calls in the window of
\* UploadWindowSeconds ending at t are at most MaxUploads.
C4_RollingWindowBound ==
    \A ip \in Ips, t \in 0..MaxClock :
        /\ Cardinality(AcceptedIn(ip, "general", t, WindowSeconds)) <= MaxRequests
        /\ Cardinality(AcceptedIn(ip, "upload", t, UploadWindowSeconds)) <= MaxUploads

\* C4 witness: a window holds MaxRequests accepted calls made at two
\* different instants, and a later call inside that window was rejected.
C4_Witness ==
    \E ip \in Ips, t \in 0..MaxClock :
        /\ Cardinality(AcceptedIn(ip, "general", t, WindowSeconds)) = MaxRequests
        /\ \E i, j \in AcceptedIn(ip, "general", t, WindowSeconds) :
               calls[i].ts # calls[j].ts
        /\ \E k \in DOMAIN calls :
               /\ calls[k].ip = ip /\ calls[k].policy = "general" /\ ~calls[k].ok
               /\ calls[k].at = t

\* the is_allowed calls of ip, in order
General(ip) ==
    SelectSeq(calls, LAMBDA c : c.ip = ip /\ c.policy = "general")
\* the first k of them were all made, and stamped, at one instant
Immediate(g, k) ==
    \A j \in 1..k : g[j].at = g[1].at /\ g[j].ts = g[1].at

\* C5: for an ip starting with no recorded calls, the first MaxRequests
\* is_allowed calls made at one instant all return True, a call made right
\* after them at that instant returns False, and a call made when more than
\* WindowSeconds have passed since every accepted call returns True.
C5_BurstThenRecovery ==
    \A ip \in Ips :
        LET g == General(ip)
        IN /\ \A k \in 1..Len(g) :
                (k <= MaxRequests /\ Immediate(g, k)) => g[k].ok
           /\ (Len(g) > MaxRequests /\ Immediate(g, MaxRequests + 1))
                => ~g[MaxRequests + 1].ok
           /\ \A k \in 1..Len(g) :
                (\A j \in 1..(k - 1) : g[j].ok => g[j].ts + WindowSeconds < g[k].at)
                    => g[k].ok

\* C5 witness: MaxRequests accepted calls and a rejected one at one instant,
\* then an accepted call after the window.
C5_Witness ==
    \E ip \in Ips :
        LET g == General(ip)
        IN /\ Len(g) >= MaxRequests + 2
           /\ Immediate(g, MaxRequests + 1)
           /\ ~g[MaxRequests + 1].ok
           /\ g[MaxRequests + 2].at > g[1].at + WindowSeconds
           /\ g[MaxRequests + 2].ok
Contains(str, ch) == \E i \in DOMAIN str : str[i] = ch
ContainsDotDot(str) == \E i \in 1..(Len(str) - 1) : str[i] = "." /\ str[i + 1] = "."

\* C8 (as claimed): the name _sanitize_filename returns holds no "..", no
\* "/", no "\" and no NUL, for every input.
C8_SanitizedNameIsSafe ==
    san_pc = "done" =>
        /\ ~ContainsDotDot(san_out)
        /\ ~Contains(san_out, "/")
        /\ ~Contains(san_out, "\\")
        /\ ~Contains(san_out, NUL)
DeletePcs == {"d_lock", "d_check", "d_unlink", "d_del", "d_ret"}

\* C6 (as claimed): an artifact with a schedule_cleanup task is in the store
\* at every moment before the task's delay has elapsed, unless a client
\* deleted it (a client's delete_file of it has returned or is under way),
\* and once the task has run its delete_file the id is no longer in the
\* store.
C6_ScheduledDeletion ==
    \A id \in Ids :
        /\ (/\ pc[SchedTask(id)] = "s_sleep" /\ now < due[id]
            /\ id \notin deleted
            /\ ~(pc[Client] \in DeletePcs /\ fid[Client] = id))
               => id \in DOMAIN metadata
        /\ pc[SchedTask(id)] = "s_fired" => id \notin DOMAIN metadata

\* C7 (as claimed): when a pass of cleanup_old_files has completed, no
\* artifact that was older than the threshold when the pass began is still
\* in the store.
C7_SweepRemovesExpired ==
    pc[Sweeper] = "sw_done" => expiredAtStart \cap DOMAIN metadata = {}

\* C11 (as claimed): DELETE /api/file/{file_id} for an id that had no entry
\* in the store when the request began is answered with 404.
C11_DeleteUnknownAnswers404 ==
    \A t \in Threads :
        (pc[t] = "responded" /\ req[t] = "delete" /\ ~knownAtStart[t])
            => status[t] = 404

\* C12: a get_file_info / get_file_path on an id without an entry raises
\* (NotFound) and a file_exists on it returns False; a POST /api/process
\* addressing an id that had no entry when the request began is answered
\* with 404 without process_command having been invoked, and while it is
\* served no id is drawn, no entry is added and no file is created.
C12_UnknownIdIsNotFound ==
    /\ [][\A t \in Threads :
            (pc[t] = "r_read" /\ pc'[t] = "ret" /\ fid[t] \notin DOMAIN metadata)
                => res'[t] = (IF op[t] = "file_exists" THEN "False" ELSE "NotFound")]_vars
    /\ [](\A t \in Threads :
            (pc[t] = "responded" /\ req[t] = "process" /\ ~knownAtStart[t])
                => (status[t] = 404 /\ ~engine[t]))
    /\ [][\A t \in Threads :
            (req[t] = "process" /\ ~knownAtStart[t])
                => (/\ used' = used /\ metadata' = metadata
                    /\ DOMAIN disk' \subseteq DOMAIN disk)]_vars

\* C12 witness: a process request for an id that was deleted before has been
\* answered with 404.
C12_Witness ==
    \E t \in Threads :
        /\ pc[t] = "responded" /\ req[t] = "process" /\ afterDel[t]
        /\ ~knownAtStart[t] /\ status[t] = 404

\* C13 (as claimed): GET /api/download/{file_id} is answered with 404 both
\* for an id that had no entry when the request began and for an id that had
\* an entry but no file on disk.
C13_DownloadMissingAnswers404 ==
    \A t \in Threads :
        (/\ pc[t] = "responded" /\ req[t] = "download"
         /\ (~knownAtStart[t] \/ ~fileAtStart[t]))
            => status[t] = 404

\* the call that a step of the rate limiter has just completed
Completes(policy) ==
    /\ Len(calls') = Len(calls) + 1
    /\ calls'[Len(calls')].policy = policy
Window(policy) == IF policy = "general" THEN WindowSeconds ELSE UploadWindowSeconds
Limit(policy) == IF policy = "general" THEN MaxRequests ELSE MaxUploads
\* the accepted calls before call k, of k's ip and policy, whose timestamp
\* is still inside the window when call k is made
AcceptedBefore(k) ==
    {j \in 1..(k - 1) : /\ calls[j].ip = calls[k].ip
                        /\ calls[j].policy = calls[k].policy
                        /\ calls[j].ok
                        /\ calls[j].ts > calls[k].at - Window(calls[k].policy)}

\* C14: an is_upload_allowed call, accepted or rejected, leaves
\* self.requests as it was and an is_allowed call leaves
\* self.upload_requests as it was; and the answer of every call is decided
\* by the accepted calls of its own policy alone: it is True exactly when
\* fewer than the limit of them are inside the window.
C14_PoliciesIndependent ==
    /\ [][(Completes("upload") => requests' = requests)
          /\ (Completes("general") => upload_requests' = upload_requests)]_vars
    /\ [](\A k \in DOMAIN calls :
            calls[k].ok <=> Cardinality(AcceptedBefore(k)) < Limit(calls[k].policy))

\* C14 witness: an ip whose upload window was exhausted (an upload call
\* rejected) was then accepted by is_allowed at the same instant.
C14_Witness ==
    \E i, j \in DOMAIN calls :
        /\ i < j /\ calls[i].ip = calls[j].ip /\ calls[i].at = calls[j].at
        /\ calls[i].policy = "upload" /\ ~calls[i].ok
        /\ calls[j].policy = "general" /\ calls[j].ok

\* the accepted calls of ip under policy
Accepted(ip, policy) ==
    {k \in DOMAIN calls : calls[k].ip = ip /\ calls[k].policy = policy /\ calls[k].ok}

\* C15: a call that returns False leaves in the list of its ip exactly the
\* timestamps that were unexpired before it, and nothing else; every
\* timestamp a list holds is that of an accepted call; and a call is
\* rejected only when the limit of accepted calls lies inside its window,
\* however many rejected calls came before it.
C15_RejectedNotRecorded ==
    /\ [][\A ip \in Ips :
            /\ (Completes("general") /\ ~calls'[Len(calls')].ok
                    /\ calls'[Len(calls')].ip = ip)
                 => requests'[ip] = clean_old(requests[ip], clock, WindowSeconds)
            /\ (Completes("upload") /\ ~calls'[Len(calls')].ok
                    /\ calls'[Len(calls')].ip = ip)
                 => upload_requests'[ip] =
                        clean_old(upload_requests[ip], clock, UploadWindowSeconds)]_vars
    /\ [](\A ip \in Ips :
            /\ Len(requests[ip]) <= Cardinality(Accepted(ip, "general"))
            /\ Len(upload_requests[ip]) <= Cardinality(Accepted(ip, "upload"))
            /\ Range(requests[ip]) \subseteq
                    {calls[k].ts : k \in Accepted(ip, "general")}
            /\ Range(upload_requests[ip]) \subseteq
                    {calls[k].ts : k \in Accepted(ip, "upload")})
    /\ [](\A k \in DOMAIN calls :
            ~calls[k].ok => Cardinality(AcceptedBefore(k)) >= Limit(calls[k].policy))

\* C15 witness: an ip was accepted, then rejected twice at later instants,
\* then accepted again at the instant the first timestamp left the window.
C15_Witness ==
    \E ip \in Ips :
        LET u == SelectSeq(calls, LAMBDA c : c.ip = ip /\ c.policy = "upload")
        IN /\ Len(u) = 4
           /\ u[1].ok /\ ~u[2].ok /\ ~u[3].ok /\ u[4].ok
           /\ u[2].at < u[3].at
           /\ u[4].at = u[1].ts + UploadWindowSeconds

\* an upload request: POST /api/upload
IsUpload(r) == r.path = "/api/upload" /\ r.method = "POST"
\* the request a step of dispatch has just handled
JustDispatched == dispatched'[Len(dispatched')]

\* C16: an upload request is handed to call_next only when, at that moment,
\* the ip was under the limit of both policies, and it is then recorded in
\* both lists; any other request leaves self.upload_requests as it was, is
\* handed to call_next exactly when the ip was under the general limit, and
\* is recorded in self.requests only.
C16_UploadNeedsBothPolicies ==
    [][Len(dispatched') = Len(dispatched) + 1 =>
        LET r == JustDispatched
            kept == clean_old(requests[r.ip], clock, WindowSeconds)
            ukept == clean_old(upload_requests[r.ip], clock, UploadWindowSeconds)
        IN /\ (IsUpload(r) /\ r.call_next)
                => /\ Len(kept) < MaxRequests /\ Len(ukept) < MaxUploads
                   /\ requests'[r.ip] = Append(kept, clock)
                   /\ upload_requests'[r.ip] = Append(ukept, clock)
           /\ ~IsUpload(r)
                => /\ upload_requests' = upload_requests
                   /\ r.upload = "skipped"
                   /\ r.call_next <=> Len(kept) < MaxRequests
                   /\ r.call_next => requests'[r.ip] = Append(kept, clock)]_vars

\* C16 witness: an upload request the general policy accepted was stopped by
\* the upload policy, and a request of the same ip that is not an upload was
\* handed on at the same instant.
C16_Witness ==
    \E i, j \in DOMAIN dispatched :
        /\ i < j /\ dispatched[i].ip = dispatched[j].ip
        /\ dispatched[i].at = dispatched[j].at
        /\ IsUpload(dispatched[i]) /\ dispatched[i].general
        /\ dispatched[i].upload = "False" /\ ~dispatched[i].call_next
        /\ ~IsUpload(dispatched[j]) /\ dispatched[j].call_next

\* the _cleanup_loop tasks that have not ended
ActiveLoops == {i \in DOMAIN loops : loops[i] # "done"}

\* C17: a start() made while is_running is true creates no task, leaves
\* is_running true and runs no pass; and as long as stop() has not been
\* called, however many times start() was, exactly one _cleanup_loop task
\* exists and it is active.
C17_StartTwiceIsNoOp ==
    /\ [][(starts' = starts + 1 /\ is_running)
            => (loops' = loops /\ is_running' /\ passes' = passes)]_vars
    /\ []((starts >= 1 /\ stops = 0)
            => (is_running /\ Len(loops) = 1 /\ ActiveLoops = {1}))

\* C17 witness: start() has returned twice, stop() was never called, and
\* the one loop is asleep.
C17_Witness ==
    /\ starts = 2 /\ stops = 0
    /\ Len(loops) = 1 /\ loops[1] = "sleep"

\* C18 (as claimed): every pass of _run_cleanup is executed while the
\* scheduler is running, that is, none after a stop() that no start()
\* followed.
C18_NoPassAfterStop ==
    \A k \in DOMAIN passes : passes[k]

\* C19 (as claimed): when cleanup_all has returned, and no save_upload or
\* save_result was in progress while it ran, self.metadata is empty.
C19_CleanupAllEmptiesMetadata ==
    (pc[CleanupAll] = "ca_done" /\ ca_quiet) => DOMAIN metadata = {}

\* a save_upload / save_result that is under way or has just returned
Creating(t) == op[t] \in CreateOps /\ pc[t] \in CreatePcs \cup {"c_sched", "ret"}

DeleteInProgress == \E p \in Procs : lock = p /\ pc[p] \in {"d_check", "d_unlink", "d_del"}

\* C21: whenever no delete_file is inside its locked block, every id with a
\* metadata entry has its file on disk; and a get_file_info, get_file_path
\* or file_exists that holds the lock never finds an entry whose file is
\* gone (so file_exists answers True for every id that has an entry).
C21_EntryHasFile ==
    /\ [](~DeleteInProgress => \A id \in DOMAIN metadata : id \in DOMAIN disk)
    /\ [](\A t \in Threads :
            (pc[t] = "r_read" /\ lock = t /\ fid[t] \in DOMAIN metadata)
                => fid[t] \in DOMAIN disk)
    /\ [][\A t \in Threads :
            (pc[t] = "r_read" /\ pc'[t] = "ret" /\ op[t] = "file_exists"
                /\ fid[t] \in DOMAIN metadata) => res'[t] = "True"]_vars

\* C21 witness: a reader is waiting for the lock on an id whose delete_file
\* has removed the file and not yet the entry.
C21_Witness ==
    \E t, u \in Threads :
        /\ pc[t] = "r_lock" /\ pc[u] = "d_del" /\ fid[t] = fid[u]
        /\ fid[u] \in DOMAIN metadata /\ fid[u] \notin DOMAIN disk

\* C22 (as claimed): when the handler of an upload or process request ends,
\* normally or with an error, and its save_upload / save_result has stored
\* an artifact, a schedule_cleanup task has been registered for that id.
C22_StoredMeansScheduled ==
    (/\ pc[Client] = "ret" /\ op[Client] \in CreateOps
     /\ res[Client] # "ValueError")
        => pc[SchedTask(fid[Client])] # "s_none"

\* older than the threshold of the sweep
Expired(id) == id \in DOMAIN metadata /\ now - metadata[id].created_at.t > SweepHours

\* C23 (as claimed): with the sweep loop kept running, an artifact that is
\* older than the sweep threshold and still in the store is eventually
\* removed from the store.
C23_SweepEventuallyReclaims ==
    \A id \in Ids : Expired(id) ~> (id \notin DOMAIN metadata)

\* C24 (as claimed): whatever start() and stop() calls were made, at most
\* one _cleanup_loop task is alive.
C24_AtMostOneLoop ==
    Cardinality(ActiveLoops) <= 1

\* C25: once stop() has been called and while no start() follows, no
\* _cleanup_loop task begins another sleep, and eventually (unless start()
\* is called again) no _cleanup_loop task is left.
C25_StopEndsTheLoop ==
    /\ [][\A i \in DOMAIN loops :
            (~is_running /\ loops[i] # "sleep") => loops'[i] # "sleep"]_vars
    /\ (stops >= 1 /\ ~is_running) ~> (is_running \/ ActiveLoops = {})

\* C25 witness: a loop that was asleep when stop() was called has ended,
\* with no start() since.
C25_Witness ==
    /\ starts = 1 /\ stops = 1 /\ ~is_running
    /\ loops = <<"done">> /\ Len(passes) = 1

Deleter == <<"t", 2>>

NextDownloadRace ==
    \/ Direct(Client) /\ save_begin(Client)
    \/ save_write(Client)
    \/ save_lock(Client)
    \/ save_insert(Client)
    \/ Direct(Client) /\ save_sched(Client)
    \/ Direct(Client) /\ return(Client)
    \/ download_file_begin(Client)
    \/ read_lock(Client)
    \/ read_do(Client)
    \/ download_file_exists(Client)
    \/ download_file_respond(Client)
    \/ respond_return(Client)
    \/ delete_begin(Deleter)
    \/ delete_lock(Deleter)
    \/ delete_check(Deleter)
    \/ delete_unlink(Deleter)
    \/ delete_del(Deleter)
    \/ delete_return(Deleter)
    \/ return(Deleter)

SpecDownloadRace == Init /\ [][NextDownloadRace]_vars

\* the client's delete_file of id has returned
ClientDeleted(id) == pc[Client] = "ret" /\ op[Client] = "delete_file" /\ fid[Client] = id

\* C27 (as claimed): for a client's delete_file and the schedule_cleanup
\* task of the same id, under every interleaving: the client's call returns
\* normally, a file is unlinked only while its entry is in the store and by
\* the holder of the lock (ids are not reused, so at most once), and when
\* both have returned the id is not in the store.
C27_RacingDeletesAgree ==
    /\ [](\A id \in Ids : ClientDeleted(id) => res[Client] = "Ok")
    /\ [][\A id \in Ids :
            (id \in DOMAIN disk /\ id \notin DOMAIN disk')
                => (id \in DOMAIN metadata /\ lock # NoProc /\ fid[lock] = id)]_vars
    /\ [](\A id \in Ids :
            (ClientDeleted(id) /\ liveAtStart[Client] /\ pc[SchedTask(id)] = "s_fired")
                => id \notin DOMAIN metadata)

\* the download of the client has been answered, for an id whose entry and
\* file were both there when the request began
DownloadAnswered ==
    /\ pc[Client] = "responded" /\ req[Client] = "download"
    /\ knownAtStart[Client] /\ fileAtStart[Client]

\* C28 (as claimed): a download of a stored artifact that races a
\* delete_file of the same id is answered with the file (200) or with
\* NotFound (404), whatever the place of the delete between its steps.
C28_DownloadRaceServedOrNotFound ==
    DownloadAnswered => status[Client] \in {200, 404}

\* process p is at a step that touches the file of an artifact:
\* file_path.unlink(), file_path.exists() of delete_file, or path.exists()
\* of file_exists (both only for an id of the map)
AtFileIO(p) ==
    \/ pc[p] = "d_unlink"
    \/ pc[p] = "d_check" /\ fid[p] \in DOMAIN metadata
    \/ /\ p \in Threads /\ pc[p] = "r_read" /\ op[p] = "file_exists"
       /\ fid[p] \in DOMAIN metadata

\* C29 (as claimed): no reader, deleter or sweep holds the lock of the
\* store at a step of its own that performs file I/O.
C29_NoFileIOUnderLock == \A p \in Procs : AtFileIO(p) => lock # p

\* this step is p's read of the map outside delete_file: the list of keys
\* that cleanup_all and cleanup_old_files take, and the metadata.get of one
\* turn of the sweep's loop
MapReadBy(p) ==
    \/ p = CleanupAll /\ pc[p] = "ca_idle" /\ pc'[p] = "ca_loop"
    \/ p = Sweeper /\ pc[p] = "sw_idle" /\ pc'[p] = "sw_loop"
    \/ p = Sweeper /\ pc[p] = "sw_loop" /\ file_ids # << >> /\ file_ids' # file_ids

\* C30 (as claimed): the map is only changed by the holder of the lock, and
\* cleanup_all and cleanup_old_files hold the lock at each of their reads of
\* the map.
C30_MapAccessUnderLock ==
    /\ [][metadata' # metadata => lock # NoProc]_vars
    /\ [][\A p \in {CleanupAll, Sweeper} : MapReadBy(p) => lock = p]_vars

\* ===================================== schedule_cleanup called again for an id
\* One artifact, registered by its handler (task number = its id), and a
\* second call schedule_cleanup(file_id, delay_seconds) for the same id,
\* which is a second coroutine (the other task number) with a sleep of its
\* own.  due[k] is the instant at which the sleep of task k is over.

\* the id that task k deletes when its sleep is over
TaskId(k) == IF fid[SchedTask(k)] = NoId THEN k ELSE fid[SchedTask(k)]

\* schedule_cleanup(file_id, delay_seconds) once more: await asyncio.sleep
schedule_cleanup_again(k) ==
    /\ pc[SchedTask(k)] = "s_none"
    /\ k \notin used
    /\ \E id \in DOMAIN metadata, delay \in {ResultCleanupDelay, UploadCleanupDelay} :
         /\ pc[SchedTask(id)] = "s_sleep"
         /\ fid' = [fid EXCEPT ![SchedTask(k)] = id]
         /\ due' = [due EXCEPT ![k] = now + delay]
    /\ pc' = [pc EXCEPT ![SchedTask(k)] = "s_sleep"]
    /\ UNCHANGED <<extv, storev, lock, used, now, liveAtStart, threadv, sweepv, histv>>

\* the sleep of the second coroutine is over; self.delete_file(file_id)
schedule_cleanup_elapsed(k) ==
    /\ pc[SchedTask(k)] = "s_sleep"
    /\ fid[SchedTask(k)] # NoId
    /\ now >= due[k]
    /\ pc' = [pc EXCEPT ![SchedTask(k)] = "d_lock"]
    /\ liveAtStart' = [liveAtStart EXCEPT ![SchedTask(k)] =
                          fid[SchedTask(k)] \in DOMAIN metadata]
    /\ UNCHANGED <<extv, storev, lock, used, now, fid, threadv, due, sweepv, histv>>

NextResched ==
    \/ used = {} /\ save_begin(Client)
    \/ save_write(Client)
    \/ save_lock(Client)
    \/ save_insert(Client)
    \/ save_sched(Client)
    \/ return(Client)
    \/ \E k \in Ids : schedule_cleanup_again(k)
    \/ \E k \in Ids : fid[SchedTask(k)] = NoId /\ schedule_cleanup_wake(k)
    \/ \E k \in Ids : schedule_cleanup_elapsed(k)
    \/ \E p \in SchedTasks : delete_lock(p)
    \/ \E p \in SchedTasks : delete_check(p)
    \/ \E p \in SchedTasks : delete_unlink(p)
    \/ \E p \in SchedTasks : delete_del(p)
    \/ \E p \in SchedTasks : delete_return(p)
    \/ Tick

SpecResched == Init /\ [][NextResched]_vars

\* the tasks whose sleep for id is not over yet
Pending(id) == {k \in Ids : pc[SchedTask(k)] = "s_sleep" /\ TaskId(k) = id}

\* the deadline registered last for id
LastDeadline(id) == IF \E k \in Ids : fid[SchedTask(k)] = id
                    THEN due[CHOOSE k \in Ids : fid[SchedTask(k)] = id]
                    ELSE due[id]

\* C31 (as claimed): an artifact has at most one pending scheduled deletion,
\* and no scheduled deletion removes it before the deadline registered last.
C31_OnePendingDeletion ==
    /\ [](\A id \in Ids : Cardinality(Pending(id)) <= 1)
    /\ [][\A id \in Ids :
            (id \in DOMAIN metadata /\ id \notin DOMAIN metadata')
                => now >= LastDeadline(id)]_vars

\* ================================================ reads of a scheduled artifact
\* One handler thread that creates artifacts and reads them (the store's
\* reads called directly, and the download handler), the schedule_cleanup
\* tasks of the artifacts, and the clock.

NextReadSched ==
    \/ Direct(Client) /\ save_begin(Client)
    \/ save_write(Client)
    \/ save_lock(Client)
    \/ save_insert(Client)
    \/ Direct(Client) /\ save_sched(Client)
    \/ Direct(Client) /\ return(Client)
    \/ read_begin(Client)
    \/ read_lock(Client)
    \/ read_do(Client)
    \/ download_file_begin(Client)
    \/ download_file_exists(Client)
    \/ download_file_respond(Client)
    \/ respond_return(Client)
    \/ \E id \in Ids : schedule_cleanup_wake(id)
    \/ \E p \in SchedTasks : delete_lock(p)
    \/ \E p \in SchedTasks : delete_check(p)
    \/ \E p \in SchedTasks : delete_unlink(p)
    \/ \E p \in SchedTasks : delete_del(p)
    \/ \E p \in SchedTasks : delete_return(p)
    \/ Tick

SpecReadSched == Init /\ [][NextReadSched]_vars

\* this step is a step of a read by the client: get_file_path,
\* get_file_info or file_exists, called directly or by the download handler
ReadStep ==
    /\ op[Client] \in ReadOps
    /\ pc[Client] \in {"r_lock", "r_read", "ret"}
    /\ pc'[Client] # pc[Client]

\* C32: a step of a read changes no deadline and no entry of the map, and
\* a sleeping schedule_cleanup task is woken at the deadline registered
\* for it, whatever was read in between.
C32_ReadsTouchNothing ==
    /\ [][ReadStep => (due' = due /\ metadata' = metadata)]_vars
    /\ [][\A id \in Ids :
            (pc[SchedTask(id)] = "s_sleep" /\ pc'[SchedTask(id)] = "d_lock")
                => now >= due[id]]_vars

\* C32 witness: a read of a stored artifact with a pending deadline has
\* returned, at an instant later than the artifact's creation
C32_Witness ==
    /\ pc[Client] = "ret" /\ op[Client] \in ReadOps
    /\ fid[Client] \in DOMAIN metadata
    /\ pc[SchedTask(fid[Client])] = "s_sleep"
    /\ now > metadata[fid[Client]].created_at.t

\* the call that this step completes is one of policy for ip
CompletesFor(ip, policy) == Completes(policy) /\ calls'[Len(calls')].ip = ip

\* of the timestamps of list before, the list after holds exactly those
\* not older than at - w
KeepsFrom(before, after, at, w) ==
    \A i \in DOMAIN before :
        (before[i] >= at - w) <=> (before[i] \in Range(after))

\* C33 (as claimed): a call of either policy discards from the list of its
\* ip exactly the timestamps strictly older than now minus the window; a
\* timestamp equal to now minus the window stays in the list.
C33_BoundaryTimestampKept ==
    [][\A ip \in Ips :
        /\ CompletesFor(ip, "general")
              => KeepsFrom(requests[ip], requests'[ip], clock, WindowSeconds)
        /\ CompletesFor(ip, "upload")
              => KeepsFrom(upload_requests[ip], upload_requests'[ip], clock,
                           UploadWindowSeconds)]_vars

\* this step is a dispatch that answered 429
Rejected429 == Len(dispatched') = Len(dispatched) + 1 /\ ~JustDispatched.call_next

\* C34 (as claimed): a request that dispatch rejects, by either policy, adds
\* no timestamp to self.requests or to self.upload_requests of its ip.
C34_RejectedRequestRecordsNothing ==
    [][Rejected429 =>
         /\ Len(requests'[JustDispatched.ip]) <= Len(requests[JustDispatched.ip])
         /\ Len(upload_requests'[JustDispatched.ip])
               <= Len(upload_requests[JustDispatched.ip])]_vars

\* C35 (as claimed): the filename that _sanitize_filename returns is never
\* longer than 255 characters, whatever the length of the extension.
C35_NameAtMost255 == san_pc = "done" => Len(san_out) <= NameLimit

returned_info_shared(entry) == [shared |-> TRUE, info |-> entry]

\* "return self.metadata[file_id].copy()": a new dict with the values of
\* the entry (strings and an int, so nothing of it is shared with the map)
returned_info(entry) == [shared |-> FALSE, info |-> entry]

\* the caller assigns to a key of the dict it was given, info['size_bytes']
\* = 0: the map changes only if the dict is the entry itself
caller_writes_info(t) ==
    /\ pc[t] = "ret" /\ op[t] = "get_file_info" /\ res[t] = "Ok"
    /\ fid[t] \in DOMAIN metadata
    /\ metadata' = IF returned_info(metadata[fid[t]]).shared
                   THEN [metadata EXCEPT ![fid[t]].size_bytes = 0]
                   ELSE metadata
    /\ op' = [op EXCEPT ![t] = "wrote_info"]
    /\ UNCHANGED <<extv, keys, disk, lock, used, now, pc, fid, liveAtStart, clen,
                   res, afterDel, duringCreate, due, sweepv, histv>>

NextInfo ==
    \/ save_begin(Client)
    \/ save_write(Client)
    \/ save_lock(Client)
    \/ save_insert(Client)
    \/ save_sched(Client)
    \/ read_begin(Client)
    \/ read_lock(Client)
    \/ read_do(Client)
    \/ caller_writes_info(Client)
    \/ return(Client)
    \/ delete_begin(Deleter)
    \/ delete_lock(Deleter)
    \/ delete_check(Deleter)
    \/ delete_unlink(Deleter)
    \/ delete_del(Deleter)
    \/ delete_return(Deleter)
    \/ return(Deleter)

SpecInfo == Init /\ [][NextInfo]_vars

\* C37: the size_bytes of an entry is the length of the content written for
\* it, whole, at its creation; no step changes an entry that stays in the
\* map, the caller's write to the dict of get_file_info included; an entry
\* appears only at the insert of a save and disappears only at the del of
\* delete_file.
C37_EntriesAreFixed ==
    /\ [](\A id \in DOMAIN metadata :
            id \in DOMAIN disk =>
                /\ disk[id].written = disk[id].total
                /\ metadata[id].size_bytes = disk[id].total)
    /\ [][\A id \in DOMAIN metadata \cap DOMAIN metadata' :
            metadata'[id] = metadata[id]]_vars
    /\ [][/\ (DOMAIN metadata' \ DOMAIN metadata # {})
               => \E t \in Threads : pc[t] = "c_insert" /\ pc'[t] # "c_insert"
           /\ (DOMAIN metadata \ DOMAIN metadata' # {})
               => \E p \in Procs : pc[p] = "d_del" /\ pc'[p] = "d_ret"]_vars

\* C37 witness: the caller has written to the dict that get_file_info
\* returned for an artifact that is still in the store
C37_Witness ==
    /\ pc[Client] = "ret" /\ op[Client] = "wrote_info"
    /\ fid[Client] \in DOMAIN metadata

\* C38 (as claimed): the list of every ip holds at most max_requests
\* timestamps in self.requests and at most max_uploads in
\* self.upload_requests, whether the calls run one after the other or
\* interleaved.
C38_ListsWithinLimits ==
    \A ip \in Ips : /\ Len(requests[ip]) <= MaxRequests
                    /\ Len(upload_requests[ip]) <= MaxUploads

\* ==================================================== background reclamation
\* One handler thread that creates artifacts, their schedule_cleanup tasks,
\* the passes of cleanup_old_files, and the clock.
ReclaimProcs == SchedTasks \cup {Sweeper}

NextReclaim ==
    \/ save_begin(Client)
    \/ save_write(Client)
    \/ save_lock(Client)
    \/ save_insert(Client)
    \/ save_sched(Client)
    \/ return(Client)
    \/ \E id \in Ids : schedule_cleanup_wake(id)
    \/ cleanup_old_files_begin
    \/ cleanup_old_files_next
    \/ cleanup_old_files_return
    \/ \E p \in ReclaimProcs : delete_lock(p)
    \/ \E p \in ReclaimProcs : delete_check(p)
    \/ \E p \in ReclaimProcs : delete_unlink(p)
    \/ \E p \in ReclaimProcs : delete_del(p)
    \/ \E p \in ReclaimProcs : delete_return(p)
    \/ Tick

SpecReclaim == Init /\ [][NextReclaim]_vars

\* this step is the del of a delete_file called by process p
RemovesBy(p) == pc[p] = "d_del" /\ pc'[p] = "d_ret"

\* the delay that the handler registers for an entry of this type
DelayOf(entry) == IF entry.type = "upload" THEN UploadCleanupDelay
                  ELSE ResultCleanupDelay

\* C39: a schedule_cleanup task removes only the entry of the id it was
\* registered for, and not before the delay has passed since the
\* registration (which is not before the creation); a pass of
\* cleanup_old_files removes only entries older than the threshold.
C39_NoEarlyReclamation ==
    [][\A id \in DOMAIN metadata \ DOMAIN metadata' :
        /\ \A p \in SchedTasks :
              RemovesBy(p) => /\ p = SchedTask(id)
                              /\ now >= due[id]
                              /\ due[id] >= metadata[id].created_at.t
                                               + DelayOf(metadata[id])
        /\ RemovesBy(Sweeper)
              => now - metadata[id].created_at.t > SweepHours]_vars

\* C39 witness: a schedule_cleanup task has removed its artifact, and a
\* pass of cleanup_old_files has completed over a store holding another
C39_Witness ==
    /\ \E id \in Ids : /\ pc[SchedTask(id)] = "s_fired"
                        /\ liveAtStart[SchedTask(id)]
                        /\ id \notin DOMAIN metadata
    /\ pc[Sweeper] = "sw_done"
    /\ DOMAIN metadata # {}
====
